---- MODULE Spec2Model ----
(***************************************************************************)
(* Flood-prediction dashboard (src/flood_dashboard.py).                    *)
(*                                                                         *)
(* The script's real numbers are modelled as exact rationals               *)
(* [num |-> n, den |-> d] in lowest terms with d > 0, so that thresholds   *)
(* such as "score = 30" or "precipitation > 100" are decided exactly.      *)
(***************************************************************************)
EXTENDS Integers, Sequences, FiniteSets, TLC

VARIABLES
    sliders,        \* the eight sidebar slider widgets' values (kept across reruns)
    button,         \* the preset button pressed in the current run: "none", "low", "critical"
    prev_button,    \* the button of the run before
    params,         \* the eight values passed to calculate_flood_risk
    flood_risk,     \* the value it returned
    locals,         \* its locals at the return statement
    category,       \* category chosen from flood_risk
    alert,          \* st.success / st.warning / st.error banner
    metrics,        \* the eight st.metric values shown
    prev,           \* <<>> or <<the direct call of calculate_flood_risk before this one>>
    pc,             \* "input", "scored"; "idle", "generated", "regenerated" (a days
                    \* argument called before); "rendered"
    df_historical,  \* the frame returned by the last generate_historical_data call
    days_arg,       \* its days argument (0: no call yet)
    first_frames,   \* per days argument in 1..MaxDays, <<the data columns of the
                    \* first frame returned for it>> (<<>>: none yet)
    rng,            \* state of numpy's global random generator
    bitgen,         \* which pseudo-random algorithm the generator runs (fixed)
    now             \* datetime.now(), in hours

vars == <<sliders, button, prev_button, params, flood_risk, locals, category, alert,
          metrics, prev, pc, df_historical, days_arg, first_frames, rng, bitgen, now>>

(***************************************************************************)
(* Exact rational arithmetic standing for the script's float arithmetic.   *)
(* The operations are functions, so their arguments are values.  A local   *)
(* assignment `x = e` followed by a use `f(x)` is written                  *)
(* CHOOSE r \in {f(x) : x \in {e}} : TRUE, which evaluates e once.         *)
(***************************************************************************)
Abs(x) == IF x < 0 THEN -x ELSE x

GCD[a \in Int, b \in Int] == IF b = 0 THEN Abs(a) ELSE GCD[Abs(b), a % Abs(b)]

Rational == [num : Int, den : Int]

Rat[n \in Int, d \in Int] ==
    LET g == GCD[n, d]
    IN  IF d < 0 THEN [num |-> (-n) \div g, den |-> (-d) \div g]
        ELSE [num |-> n \div g, den |-> d \div g]

R(n) == [num |-> n, den |-> 1]

RAdd[a \in Rational, b \in Rational] ==
    LET g == GCD[a.den, b.den]
    IN  Rat[a.num * (b.den \div g) + b.num * (a.den \div g), (a.den \div g) * b.den]

RSub[a \in Rational, b \in Rational] == RAdd[a, [num |-> -b.num, den |-> b.den]]

RMul[a \in Rational, b \in Rational] ==
    IF a.num = 0 \/ b.num = 0 THEN R(0)
    ELSE [num |-> (a.num \div GCD[a.num, b.den]) * (b.num \div GCD[b.num, a.den]),
          den |-> (a.den \div GCD[b.num, a.den]) * (b.den \div GCD[a.num, b.den])]

RDiv[a \in Rational, k \in Int] == RMul[a, Rat[1, k]]

\* a <= b, comparing whole parts first and then the fractional parts over
\* the least common denominator.
RLeq[a \in Rational, b \in Rational] ==
    IF a.num \div a.den # b.num \div b.den
    THEN a.num \div a.den < b.num \div b.den
    ELSE (a.num % a.den) * (b.den \div GCD[a.den, b.den])
            <= (b.num % b.den) * (a.den \div GCD[a.den, b.den])

RLt[a \in Rational, b \in Rational] == ~RLeq[b, a]

RMin[a \in Rational, b \in Rational] == IF RLeq[a, b] THEN a ELSE b

RMax[a \in Rational, b \in Rational] == IF RLeq[a, b] THEN b ELSE a

(***************************************************************************)
(* calculate_flood_risk                                                    *)
(***************************************************************************)
weights ==
    [precipitation |-> Rat[30, 100],
     flow_volume   |-> Rat[25, 100],
     humidity      |-> Rat[15, 100],
     flow_velocity |-> Rat[12, 100],
     sediments     |-> Rat[8, 100],
     pressure      |-> Rat[5, 100],
     wind_speed    |-> Rat[3, 100],
     temperature   |-> Rat[2, 100]]

\* Mutant: the precipitation scale inverted, as the pressure scale is.
norm_precipitation_inverted(precipitation) ==
    RSub[R(1), RMax[R(0), RMin[RDiv[precipitation, 200], R(1)]]]

norm_precipitation(precipitation) == RMin[RDiv[precipitation, 200], R(1)]

norm_humidity(humidity) == RDiv[humidity, 100]

norm_flow_volume(flow_volume) == RMin[RDiv[flow_volume, 2000], R(1)]

norm_flow_velocity(flow_velocity) == RMin[RDiv[flow_velocity, 10], R(1)]

norm_sediments(sediments) == RMin[RDiv[sediments, 500], R(1)]

norm_pressure(pressure) ==
    RSub[R(1), RMax[R(0), RMin[RDiv[RSub[pressure, R(980)], 40], R(1)]]]

norm_wind_speed(wind_speed) == RMin[RDiv[wind_speed, 80], R(1)]

temp_risk(temperature) ==
    IF RLeq[R(26), temperature] /\ RLeq[temperature, R(32)] THEN Rat[8, 10]
    ELSE IF RLt[R(32), temperature] THEN Rat[5, 10]
    ELSE RMax[R(0), RDiv[RSub[temperature, R(15)], 15]]

\* The eight normalised values.
normalised(pressure, humidity, precipitation, flow_velocity, wind_speed, temperature, sediments, flow_volume) ==
    [precipitation |-> norm_precipitation(precipitation),
     humidity      |-> norm_humidity(humidity),
     flow_volume   |-> norm_flow_volume(flow_volume),
     flow_velocity |-> norm_flow_velocity(flow_velocity),
     sediments     |-> norm_sediments(sediments),
     pressure      |-> norm_pressure(pressure),
     wind_speed    |-> norm_wind_speed(wind_speed),
     temperature   |-> temp_risk(temperature)]

\* risk = norm_precipitation * weights['precipitation'] + ...
weighted_sum(norm) ==
    RAdd[RAdd[RAdd[RAdd[RAdd[RAdd[RAdd[
        RMul[norm.precipitation, weights.precipitation],
        RMul[norm.flow_volume, weights.flow_volume]],
        RMul[norm.humidity, weights.humidity]],
        RMul[norm.flow_velocity, weights.flow_velocity]],
        RMul[norm.sediments, weights.sediments]],
        RMul[norm.pressure, weights.pressure]],
        RMul[norm.wind_speed, weights.wind_speed]],
        RMul[norm.temperature, weights.temperature]]

\* The conditions of the four `if ... : risk *= ...` statements.
\* Mutant: `or` in place of `and`.
synergy_rain_or(precipitation, humidity) ==
    RLt[R(100), precipitation] \/ RLt[R(90), humidity]

synergy_rain(precipitation, humidity) ==
    RLt[R(100), precipitation] /\ RLt[R(90), humidity]

synergy_flow(flow_volume, flow_velocity) ==
    RLt[R(1200), flow_volume] /\ RLt[R(5), flow_velocity]

synergy_sediments(sediments, flow_volume) ==
    RLt[R(300), sediments] /\ RLt[R(800), flow_volume]

synergy_pressure(pressure, precipitation) ==
    RLt[pressure, R(990)] /\ RLt[R(80), precipitation]

\* The four statements, in order: risk after each.
after_rain(risk, precipitation, humidity) ==
    IF synergy_rain(precipitation, humidity) THEN RMul[risk, Rat[125, 100]] ELSE risk

after_flow(risk, flow_volume, flow_velocity) ==
    IF synergy_flow(flow_volume, flow_velocity) THEN RMul[risk, Rat[13, 10]] ELSE risk

after_sediments(risk, sediments, flow_volume) ==
    IF synergy_sediments(sediments, flow_volume) THEN RMul[risk, Rat[115, 100]] ELSE risk

after_pressure(risk, pressure, precipitation) ==
    IF synergy_pressure(pressure, precipitation) THEN RMul[risk, Rat[12, 10]] ELSE risk

\* risk just before the return statement
apply_synergies(base, pressure, humidity, precipitation, flow_velocity, sediments, flow_volume) ==
    after_pressure(
        after_sediments(
            after_flow(
                after_rain(base, precipitation, humidity),
                flow_volume, flow_velocity),
            sediments, flow_volume),
        pressure, precipitation)

\* Mutant: the upper limit left out.
clamp_score_no_upper(risk) == RMax[RMul[risk, R(100)], R(0)]

\* return min(max(risk * 100, 0), 100)
clamp_score(risk) == RMin[RMax[RMul[risk, R(100)], R(0)], R(100)]

\* One call of calculate_flood_risk: its locals at the return statement (the
\* eight normalised values, the weighted sum `base`, and `risk`) and the
\* value returned.
flood_risk_locals(pressure, humidity, precipitation, flow_velocity, wind_speed, temperature, sediments, flow_volume) ==
    CHOOSE r \in
        {[norm |-> n.norm, base |-> n.base, risk |-> n.risk, result |-> clamp_score(n.risk)] :
         n \in {[norm |-> m.norm, base |-> m.base,
                 risk |-> apply_synergies(m.base, pressure, humidity, precipitation,
                                          flow_velocity, sediments, flow_volume)] :
                m \in {[norm |-> norm, base |-> weighted_sum(norm)] :
                       norm \in {normalised(pressure, humidity, precipitation,
                                            flow_velocity, wind_speed, temperature,
                                            sediments, flow_volume)}}}} : TRUE

calculate_flood_risk(pressure, humidity, precipitation, flow_velocity, wind_speed, temperature, sediments, flow_volume) ==
    flood_risk_locals(pressure, humidity, precipitation, flow_velocity,
                      wind_speed, temperature, sediments, flow_volume).result

(***************************************************************************)
(* Category and alert banner of the script body.                           *)
(***************************************************************************)
\* Mutant: `<=` in place of `<`.
Categorize_le(score) ==
    IF RLeq[score, R(30)] THEN "BAJO"
    ELSE IF RLeq[score, R(60)] THEN "MODERADO"
    ELSE IF RLeq[score, R(80)] THEN "ALTO"
    ELSE "CRITICO"

Categorize(score) ==
    IF RLt[score, R(30)] THEN "BAJO"
    ELSE IF RLt[score, R(60)] THEN "MODERADO"
    ELSE IF RLt[score, R(80)] THEN "ALTO"
    ELSE "CRITICO"

AlertLevel(score) ==
    IF RLt[score, R(30)] THEN "success"
    ELSE IF RLt[score, R(60)] THEN "warning"
    ELSE IF RLt[score, R(80)] THEN "error"
    ELSE "error"

Locals(p) ==
    flood_risk_locals(p.pressure, p.humidity, p.precipitation, p.flow_velocity,
                      p.wind_speed, p.temperature, p.sediments, p.flow_volume)

(***************************************************************************)
(* numpy's global random generator.  Its state is the seed it was last     *)
(* given and the number of values drawn since; `bitgen` stands for the     *)
(* algorithm, which the script does not choose.  A draw is a fixed         *)
(* function of algorithm, seed and position.                               *)
(***************************************************************************)
MaxSalt == 5

MaxEntropy == 1

Seed == 42

Mix(bg, state, k) ==
    LET x == (state.key * 31 + bg * 17 + state.pos + k) % 10007
        h == (x * x + 7 * x + 3) % 1009
    IN  (h * h + 13 * h + bg) % 997

\* Values a Gamma(2, 15) draw is taken from (mm).
GammaVals == <<1, 4, 9, 15, 22, 30, 45, 60, 85, 130>>

\* Values a standard normal draw is taken from (standard deviations), far
\* tails included.
NormalZ == <<-8, -3, -2, -1, 0, 0, 1, 2, 3, 8>>

\* k-th value (from 0) of the next np.random.gamma(2, 15, n) in state `state`.
random_gamma(bg, state, k) == GammaVals[(Mix(bg, state, k) % Len(GammaVals)) + 1]

\* k-th value of the next np.random.normal(loc, scale, n).
random_normal(bg, state, loc, scale, k) ==
    loc + scale * NormalZ[(Mix(bg, state, k) % Len(NormalZ)) + 1]

\* The state after n values were drawn.
advance(state, n) == [state EXCEPT !.pos = @ + n]

\* Mutant: the seeding left out.
np_random_noseed(state, s) == state

\* np.random.seed(s)
np_random_seed(state, s) == [key |-> s, pos |-> 0]

(***************************************************************************)
(* amplitude * sin(2*pi*i/period), rounded to the nearest integer          *)
(* (Bhaskara's rational form of the sine over a half period).              *)
(***************************************************************************)
SinScaled(amplitude, i, period) ==
    LET half == period \div 2
        t    == i % period
        u    == IF t <= half THEN t ELSE t - half
        p    == u * (half - u)
        d    == 5 * half * half - 4 * p
        m    == (2 * amplitude * 16 * p + d) \div (2 * d)
    IN  IF t <= half THEN m ELSE -m

clip(x, lo, hi) == IF x < lo THEN lo ELSE IF x > hi THEN hi ELSE x

(***************************************************************************)
(* generate_historical_data                                                *)
(***************************************************************************)
HoursPerDay == 24

HistDays == 30

MaxDays == 2

MaxClock == 1

\* pd.date_range(end=now, periods=n, freq='H')
date_range(end, n) == [i \in 1..n |-> end - (n - i)]

\* Mutant: the wind column and the velocity placeholder in each other's place.
row_risk_misplaced(df, i) ==
    calculate_flood_risk(R(df.presion[i]), R(df.humedad[i]), R(df.precipitacion[i]),
                         R(df.viento[i]), R(2), R(df.temperatura[i]), R(50),
                         R(df.caudal[i]))

\* The lambda of df.apply(..., axis=1), on row i of the frame.  The cells of
\* the data columns are whole numbers; the risk is a rational.
row_risk(df, i) ==
    calculate_flood_risk(R(df.presion[i]), R(df.humedad[i]), R(df.precipitacion[i]),
                         R(2), R(df.viento[i]), R(df.temperatura[i]), R(50),
                         R(df.caudal[i]))

\* The dict `data` without its dates, drawn column by column in the order of
\* the dict literal from generator state s0.
historical_draws(bg, s0, n) ==
    [precipitacion |-> [i \in 1..n |-> random_gamma(bg, s0, i - 1)],
     temperatura   |-> [i \in 1..n |->
         15 + SinScaled(10, i - 1, 24)
            + random_normal(bg, advance(s0, n), 0, 2, i - 1)],
     humedad       |-> [i \in 1..n |->
         clip(60 + random_normal(bg, advance(s0, 2 * n), 0, 15, i - 1), 30, 100)],
     presion       |-> [i \in 1..n |->
         1013 + random_normal(bg, advance(s0, 3 * n), 0, 10, i - 1)],
     viento        |-> [i \in 1..n |->
         Abs(random_normal(bg, advance(s0, 4 * n), 15, 10, i - 1))],
     caudal        |-> [i \in 1..n |->
         300 + SinScaled(200, i - 1, 24 * 7)
             + random_normal(bg, advance(s0, 5 * n), 0, 100, i - 1)]]

\* Mutant: the clip left out.
clip_caudal_missing(col) == col

\* df['caudal'] = df['caudal'].clip(50, 2000)
clip_caudal(col) == [i \in DOMAIN col |-> clip(col[i], 50, 2000)]

\* df['riesgo'] = df.apply(...)
with_riesgo(df) ==
    [precipitacion |-> df.precipitacion,
     temperatura   |-> df.temperatura,
     humedad       |-> df.humedad,
     presion       |-> df.presion,
     viento        |-> df.viento,
     caudal        |-> df.caudal,
     riesgo        |-> [i \in DOMAIN df.presion |-> row_risk(df, i)]]

\* The data columns of the frame built from generator state s0 (just after
\* the seeding).
historical_columns(bg, s0, days) ==
    CHOOSE r \in
        {with_riesgo(df) :
         df \in {[data EXCEPT !.caudal = clip_caudal(@)] :
                 data \in {historical_draws(bg, s0, days * HoursPerDay)}}} : TRUE

SeededState == np_random_seed([key |-> 0, pos |-> 0], Seed)

\* The columns of the dashboard's own call, generate_historical_data(30),
\* per algorithm: the same expression, evaluated once.
SeededColumns == [bg \in 0..MaxSalt |-> historical_columns(bg, SeededState, HistDays)]

\* The frame: the dates and the data columns.
with_fecha(dates, cols) ==
    [fecha         |-> dates,
     precipitacion |-> cols.precipitacion,
     temperatura   |-> cols.temperatura,
     humedad       |-> cols.humedad,
     presion       |-> cols.presion,
     viento        |-> cols.viento,
     caudal        |-> cols.caudal,
     riesgo        |-> cols.riesgo]

\* After np.random.seed(42) left the generator in state s0.
seeded_frame(bg, s0, clock, days) ==
    [df  |-> CHOOSE r \in
                {with_fecha(date_range(clock, days * HoursPerDay), cols) :
                 cols \in {IF s0 = SeededState /\ days = HistDays
                           THEN SeededColumns[bg]
                           ELSE historical_columns(bg, s0, days)}} : TRUE,
     rng |-> advance(s0, 6 * days * HoursPerDay)]

\* generate_historical_data(days) called with generator state `state` at time
\* `clock`: the frame returned and the generator state left behind.
generate_historical_data(bg, state, clock, days) ==
    seeded_frame(bg, np_random_seed(state, Seed), clock, days)

\* The columns of a frame other than its timestamps.
DataColumns(df) ==
    [precipitacion |-> df.precipitacion, temperatura |-> df.temperatura,
     humedad |-> df.humedad, presion |-> df.presion, viento |-> df.viento,
     caudal |-> df.caudal, riesgo |-> df.riesgo]

(***************************************************************************)
(* The script body: sliders, preset buttons, score, category, metrics and  *)
(* the historical frame of one run.                                        *)
(***************************************************************************)
DefaultSliders ==
    [pressure |-> R(1000), humidity |-> R(83), precipitation |-> R(50),
     flow_velocity |-> R(2), wind_speed |-> R(18), temperature |-> R(25),
     sediments |-> R(50), flow_volume |-> R(504)]

LowPreset ==
    [pressure |-> R(1015), humidity |-> R(60), precipitation |-> R(10),
     flow_velocity |-> Rat[15, 10], wind_speed |-> R(8), temperature |-> R(20),
     sediments |-> R(30), flow_volume |-> R(200)]

\* Mutant: humidity 90 in place of 95.
CriticalPreset_humidity90 ==
    [pressure |-> R(985), humidity |-> R(90), precipitation |-> R(180),
     flow_velocity |-> Rat[75, 10], wind_speed |-> R(55), temperature |-> R(29),
     sediments |-> R(400), flow_volume |-> R(1800)]

CriticalPreset ==
    [pressure |-> R(985), humidity |-> R(95), precipitation |-> R(180),
     flow_velocity |-> Rat[75, 10], wind_speed |-> R(55), temperature |-> R(29),
     sediments |-> R(400), flow_volume |-> R(1800)]

\* Mutant: the preset assignments lost.
EffectiveParams_sliders_only(sl, btn) == sl

\* The values of the eight names after the two `if button` blocks.
EffectiveParams(sl, btn) ==
    LET afterLow == IF btn = "low" THEN LowPreset ELSE sl
    IN  IF btn = "critical" THEN CriticalPreset ELSE afterLow

\* f"{x:+.<digits>f}": x rounded to `digits` decimals, a half going to the
\* even neighbour.
format_fixed(x, digits) ==
    LET s == RMul[x, R(10 ^ digits)]
        q == s.num \div s.den
        r == s.num % s.den
        n == IF 2 * r < s.den THEN q
             ELSE IF 2 * r > s.den THEN q + 1
             ELSE IF q % 2 = 0 THEN q ELSE q + 1
    IN  Rat[n, 10 ^ digits]

\* The st.metric calls: value shown and its delta against the reference.
Metrics(p) ==
    [precipitation |-> [value |-> p.precipitation,
                        delta |-> format_fixed(RSub[p.precipitation, R(50)], 0)],
     temperature   |-> [value |-> p.temperature,
                        delta |-> format_fixed(RSub[p.temperature, R(25)], 0)],
     humidity      |-> [value |-> p.humidity,
                        delta |-> format_fixed(RSub[p.humidity, R(70)], 0)],
     pressure      |-> [value |-> p.pressure,
                        delta |-> format_fixed(RSub[p.pressure, R(1013)], 0)],
     flow_volume   |-> [value |-> p.flow_volume,
                        delta |-> format_fixed(RSub[p.flow_volume, R(500)], 0)],
     flow_velocity |-> [value |-> p.flow_velocity,
                        delta |-> format_fixed(RSub[p.flow_velocity, R(2)], 1)],
     wind_speed    |-> [value |-> p.wind_speed,
                        delta |-> format_fixed(RSub[p.wind_speed, R(15)], 0)],
     sediments     |-> [value |-> p.sediments,
                        delta |-> format_fixed(RSub[p.sediments, R(100)], 0)]]

NoLocals == [norm |-> [x \in {} |-> R(0)], base |-> R(0), risk |-> R(0), result |-> R(0)]

NoMetrics == [x \in {} |-> R(0)]

EmptyFrame ==
    [fecha |-> <<>>, precipitacion |-> <<>>, temperatura |-> <<>>, humedad |-> <<>>,
     presion |-> <<>>, viento |-> <<>>, caudal |-> <<>>, riesgo |-> <<>>]

NoFrames == [d \in 1..MaxDays |-> <<>>]

\* flood_risk = calculate_flood_risk(...) and the category / banner chosen from it
Evaluate(p) ==
    /\ params' = p
    /\ locals' = Locals(p)
    /\ flood_risk' = locals'.result
    /\ category' = Categorize(flood_risk')
    /\ alert' = AlertLevel(flood_risk')

\* df = generate_historical_data(days), read at time t
Generate(days, t) ==
    \E g \in {generate_historical_data(bitgen, rng, t, days)} :
        /\ df_historical' = g.df
        /\ rng' = g.rng
        /\ days_arg' = days
        /\ now' = t
        /\ first_frames' = IF days \in DOMAIN first_frames /\ first_frames[days] = <<>>
                           THEN [first_frames EXCEPT ![days] = <<DataColumns(g.df)>>]
                           ELSE first_frames
        /\ bitgen' = bitgen

ClockReadings == {t \in {now, now + 1} : t <= MaxClock}

(***************************************************************************)
(* Spec: the dashboard.  Every widget interaction reruns the whole script. *)
(***************************************************************************)
PressureSlider == {R(985), R(1000)}
HumiditySlider == {R(83), R(95)}
PrecipitationSlider == {R(50), R(150)}
VelocitySlider == {R(2), Rat[75, 10]}
WindSlider == {R(18), R(55)}
TemperatureSlider == {R(25), R(29)}
SedimentSlider == {R(50), R(400)}
VolumeSlider == {R(504), R(1500)}

SliderValues ==
    [pressure |-> PressureSlider, humidity |-> HumiditySlider,
     precipitation |-> PrecipitationSlider, flow_velocity |-> VelocitySlider,
     wind_speed |-> WindSlider, temperature |-> TemperatureSlider,
     sediments |-> SedimentSlider, flow_volume |-> VolumeSlider]

\* One run of the script with slider values sl and button btn.
Run(sl, btn) ==
    /\ sliders' = sl
    /\ button' = btn
    /\ prev_button' = button
    /\ Evaluate(EffectiveParams(sl, btn))
    /\ metrics' = Metrics(params')
    /\ \E t \in ClockReadings : Generate(HistDays, t)
    /\ UNCHANGED <<prev, pc>>

Init ==
    /\ sliders = DefaultSliders
    /\ button = "none"
    /\ prev_button = "none"
    /\ params = EffectiveParams(sliders, button)
    /\ locals = Locals(params)
    /\ flood_risk = locals.result
    /\ category = Categorize(flood_risk)
    /\ alert = AlertLevel(flood_risk)
    /\ metrics = Metrics(params)
    /\ prev = <<>>
    /\ pc = "rendered"
    /\ bitgen = 0
    /\ now = 0
    /\ days_arg = HistDays
    /\ \E e \in 0..MaxEntropy :
         \E g \in {generate_historical_data(bitgen, [key |-> e, pos |-> 0], now, HistDays)} :
             /\ df_historical = g.df
             /\ rng = g.rng
             /\ first_frames = NoFrames

MoveSlider ==
    \E name \in DOMAIN SliderValues :
        \E v \in SliderValues[name] \ {sliders[name]} :
            Run([sliders EXCEPT ![name] = v], "none")

PressLow == Run(sliders, "low")

PressCritical == Run(sliders, "critical")

Next == MoveSlider \/ PressLow \/ PressCritical

Spec == Init /\ [][Next]_vars

(***************************************************************************)
(* SpecScore: calculate_flood_risk called directly on a parameter set, and *)
(* called again with another precipitation.                                *)
(***************************************************************************)
PressureVals == {R(975), R(990), R(1025)}
HumidityVals == {R(50), R(95), R(100), R(150)}
PrecipitationVals == {R(-50), R(80), R(150), R(200), R(500)}
VelocityVals == {R(0), R(12)}
WindVals == {R(0), R(120)}
TemperatureVals == {R(10), R(29)}
SedimentVals == {R(0), R(250), R(600)}
VolumeVals == {R(0), R(1200), R(2500)}

ParameterSets ==
    [pressure : PressureVals, humidity : HumidityVals,
     precipitation : PrecipitationVals, flow_velocity : VelocityVals,
     wind_speed : WindVals, temperature : TemperatureVals,
     sediments : SedimentVals, flow_volume : VolumeVals]

NoDashboard ==
    /\ sliders = DefaultSliders
    /\ button = "none"
    /\ prev_button = "none"
    /\ metrics = NoMetrics

NoHistory ==
    /\ df_historical = EmptyFrame
    /\ days_arg = 0
    /\ first_frames = NoFrames

InitScore ==
    /\ params \in ParameterSets
    /\ pc = "input"
    /\ flood_risk = R(0)
    /\ locals = NoLocals
    /\ category = ""
    /\ alert = ""
    /\ prev = <<>>
    /\ NoDashboard
    /\ NoHistory
    /\ rng = [key |-> 0, pos |-> 0]
    /\ bitgen = 0
    /\ now = 0

Score ==
    /\ pc = "input"
    /\ pc' = "scored"
    /\ Evaluate(params)
    /\ UNCHANGED <<prev, sliders, button, prev_button, metrics, df_historical,
                   days_arg, first_frames, rng, bitgen, now>>

ChangePrecipitation ==
    /\ pc = "scored"
    /\ \E p \in PrecipitationVals \ {params.precipitation} :
         Evaluate([params EXCEPT !.precipitation = p])
    /\ prev' = <<[params |-> params, flood_risk |-> flood_risk]>>
    /\ UNCHANGED <<pc, sliders, button, prev_button, metrics, df_historical,
                   days_arg, first_frames, rng, bitgen, now>>

NextScore == Score \/ ChangePrecipitation

SpecScore == InitScore /\ [][NextScore]_vars

(***************************************************************************)
(* SpecGen: generate_historical_data called directly, any number of times, *)
(* with any days argument, from any generator state.                       *)
(***************************************************************************)
InitGen ==
    /\ pc = "idle"
    /\ params = DefaultSliders
    /\ flood_risk = R(0)
    /\ locals = NoLocals
    /\ category = ""
    /\ alert = ""
    /\ prev = <<>>
    /\ NoDashboard
    /\ NoHistory
    /\ rng \in [key : 0..MaxEntropy, pos : {0}]
    /\ bitgen \in 0..MaxSalt
    /\ now = 0

GenerateCall ==
    /\ \E days \in 1..MaxDays : \E t \in ClockReadings : Generate(days, t)
    /\ pc' = IF first_frames[days_arg'] = <<>> THEN "generated" ELSE "regenerated"
    /\ UNCHANGED <<sliders, button, prev_button, params, flood_risk, locals,
                   category, alert, metrics, prev>>

NextGen == GenerateCall

SpecGen == InitGen /\ [][NextGen]_vars

(***************************************************************************)
(* Properties.                                                             *)
(***************************************************************************)
\* The documented input ranges: humidity in [0,100]; precipitation,
\* flow_velocity, wind_speed, sediments and flow_volume >= 0; any pressure
\* and temperature.
ValidParameterSet(p) ==
    /\ RLeq[R(0), p.humidity] /\ RLeq[p.humidity, R(100)]
    /\ RLeq[R(0), p.precipitation]
    /\ RLeq[R(0), p.flow_velocity]
    /\ RLeq[R(0), p.wind_speed]
    /\ RLeq[R(0), p.sediments]
    /\ RLeq[R(0), p.flow_volume]

Generated == pc \in {"generated", "regenerated"}

\* C1: for every valid parameter set, calculate_flood_risk returns a score s
\* with 0 <= s <= 100, whichever synergy multipliers trigger.
ScoreWithinBounds ==
    (pc = "scored" /\ ValidParameterSet(params)) =>
        RLeq[R(0), flood_risk] /\ RLeq[flood_risk, R(100)]

\* C1 witness: a valid parameter set whose risk before the clamp exceeds 1
\* (multipliers triggered) and whose score is exactly 100.
ScoreWithinBounds_witness ==
    /\ pc = "scored"
    /\ ValidParameterSet(params)
    /\ RLt[R(1), locals.risk]
    /\ locals.risk # locals.base
    /\ flood_risk = R(100)

\* C2: of two valid parameter sets that differ only in precipitation, with
\* 0 <= p1 <= p2 <= 200, the score at p1 is <= the score at p2.
PrecipitationMonotone ==
    (pc = "scored" /\ prev # <<>>) =>
        \A before \in {prev[1]} :
            ( /\ ValidParameterSet(before.params)
              /\ ValidParameterSet(params)
              /\ [before.params EXCEPT !.precipitation = params.precipitation] = params
              /\ RLeq[R(0), before.params.precipitation]
              /\ RLeq[before.params.precipitation, params.precipitation]
              /\ RLeq[params.precipitation, R(200)] )
            => RLeq[before.flood_risk, flood_risk]

\* C2 witness: precipitation raised from 80 to 150 with humidity above 90 and
\* pressure below 990, so both precipitation thresholds (> 80 and > 100) are
\* crossed, and the score rose.
PrecipitationMonotone_witness ==
    /\ pc = "scored"
    /\ prev # <<>>
    /\ prev[1].params.precipitation = R(80)
    /\ params.precipitation = R(150)
    /\ params.humidity = R(95)
    /\ params.pressure = R(975)
    /\ ValidParameterSet(params)
    /\ RLt[prev[1].flood_risk, flood_risk]

\* C3: score < 30 is BAJO, 30 <= score < 60 is MODERADO, 60 <= score < 80 is
\* ALTO, score >= 80 is CRITICO (one category for every score), and the
\* alert banner is chosen with the same thresholds.
CategoryBoundaries ==
    pc = "scored" =>
        /\ category \in {"BAJO", "MODERADO", "ALTO", "CRITICO"}
        /\ category = "BAJO" <=> RLt[flood_risk, R(30)]
        /\ category = "MODERADO" <=> (RLeq[R(30), flood_risk] /\ RLt[flood_risk, R(60)])
        /\ category = "ALTO" <=> (RLeq[R(60), flood_risk] /\ RLt[flood_risk, R(80)])
        /\ category = "CRITICO" <=> RLeq[R(80), flood_risk]
        /\ alert = "success" <=> RLt[flood_risk, R(30)]
        /\ alert = "warning" <=> (RLeq[R(30), flood_risk] /\ RLt[flood_risk, R(60)])
        /\ alert = "error" <=> RLeq[R(60), flood_risk]

\* C3 witness: a score of exactly 30, in the higher category.
CategoryBoundaries_witness ==
    pc = "scored" /\ flood_risk = R(30) /\ category = "MODERADO" /\ alert = "warning"

\* C4: the risk before the clamp is the weighted sum times the product of
\* exactly those multipliers whose two raw-value conditions both hold.
SynergyProduct ==
    pc = "scored" =>
        locals.risk =
            RMul[RMul[RMul[RMul[locals.base,
                IF RLt[R(100), params.precipitation] /\ RLt[R(90), params.humidity]
                THEN Rat[125, 100] ELSE R(1)],
                IF RLt[R(1200), params.flow_volume] /\ RLt[R(5), params.flow_velocity]
                THEN Rat[130, 100] ELSE R(1)],
                IF RLt[R(300), params.sediments] /\ RLt[R(800), params.flow_volume]
                THEN Rat[115, 100] ELSE R(1)],
                IF RLt[params.pressure, R(990)] /\ RLt[R(80), params.precipitation]
                THEN Rat[120, 100] ELSE R(1)]

\* C4 witness: precipitation 150 with humidity 95 and pressure 975 compounds
\* x1.25 and x1.20, while flow_velocity 12 with flow_volume 1200 (one condition
\* of x1.30 only) adds nothing.
SynergyProduct_witness ==
    /\ pc = "scored"
    /\ params.precipitation = R(150)
    /\ params.humidity = R(95)
    /\ params.pressure = R(975)
    /\ params.flow_velocity = R(12)
    /\ params.flow_volume = R(1200)
    /\ locals.base # R(0)
    /\ locals.risk = RMul[locals.base, Rat[3, 2]]

\* C5: the low-risk preset gives category BAJO; the critical preset triggers
\* all four multipliers (x 1.25 * 1.30 * 1.15 * 1.20 = 897/400) and gives
\* category CRITICO with a score of at least 97.
PresetScenarios ==
    /\ button = "low" =>
        /\ params = [pressure |-> R(1015), humidity |-> R(60), precipitation |-> R(10),
                     flow_velocity |-> Rat[3, 2], wind_speed |-> R(8),
                     temperature |-> R(20), sediments |-> R(30), flow_volume |-> R(200)]
        /\ category = "BAJO"
    /\ button = "critical" =>
        /\ params = [pressure |-> R(985), humidity |-> R(95), precipitation |-> R(180),
                     flow_velocity |-> Rat[15, 2], wind_speed |-> R(55),
                     temperature |-> R(29), sediments |-> R(400), flow_volume |-> R(1800)]
        /\ locals.risk = RMul[locals.base, Rat[897, 400]]
        /\ category = "CRITICO"
        /\ RLeq[R(97), flood_risk] /\ RLeq[flood_risk, R(100)]

\* C5 witness: the critical preset pressed while the sliders stand at their
\* defaults; the run shows CRITICO.
PresetScenarios_witness ==
    /\ button = "critical"
    /\ sliders = DefaultSliders
    /\ category = "CRITICO"
    /\ RLt[locals.base, locals.risk]

\* C6: for every numeric input each of the eight normalised values lies in
\* [0,1].
NormalisedWithinUnit ==
    pc = "scored" =>
        \A k \in DOMAIN locals.norm :
            RLeq[R(0), locals.norm[k]] /\ RLeq[locals.norm[k], R(1)]

\* C7: a call of generate_historical_data returns the same non-timestamp
\* columns as the first call made with the same days, whenever it is made,
\* whatever the generator state and whatever calls came in between.
Reproducible ==
    Generated => first_frames[days_arg] = <<DataColumns(df_historical)>>

\* C7 witness: a repeated call, made after the clock moved and after every
\* days argument was used.
Reproducible_witness ==
    /\ pc = "regenerated"
    /\ now > 0
    /\ \A d \in 1..MaxDays : first_frames[d] # <<>>
    /\ df_historical.fecha[1] = now - (days_arg * 24 - 1)

\* C8: the risk of every row is calculate_flood_risk of the row's own
\* pressure, humidity, precipitation, wind, temperature and flow volume with
\* flow_velocity 2.0 and sediments 50; so only x1.25 and x1.20 can apply.
RowRiskFromRow ==
    Generated =>
        \A i \in DOMAIN df_historical.riesgo :
            \A l \in {flood_risk_locals(R(df_historical.presion[i]),
                                        R(df_historical.humedad[i]),
                                        R(df_historical.precipitacion[i]),
                                        R(2),
                                        R(df_historical.viento[i]),
                                        R(df_historical.temperatura[i]),
                                        R(50),
                                        R(df_historical.caudal[i]))} :
                /\ df_historical.riesgo[i] = l.result
                /\ l.risk =
                     RMul[RMul[l.base,
                         IF df_historical.precipitacion[i] > 100
                            /\ df_historical.humedad[i] > 90
                         THEN Rat[125, 100] ELSE R(1)],
                         IF df_historical.presion[i] < 990
                            /\ df_historical.precipitacion[i] > 80
                         THEN Rat[120, 100] ELSE R(1)]

\* C8 witness: a row whose flow volume exceeds 1200 and wind exceeds 5, with a
\* risk below 100 that is the clamped weighted sum of the row.
RowRiskFromRow_witness ==
    /\ Generated
    /\ \E i \in DOMAIN df_historical.riesgo :
        /\ df_historical.caudal[i] > 1200
        /\ df_historical.viento[i] > 5
        /\ df_historical.precipitacion[i] <= 80
        /\ RLt[R(0), df_historical.riesgo[i]]
        /\ RLt[df_historical.riesgo[i], R(100)]

\* C9: the frame has days * 24 rows, and in every row 30 <= humidity <= 100,
\* 50 <= flow volume <= 2000, wind >= 0 and 0 <= risk <= 100; the risk is
\* that of the clamped flow volume.
SeriesShape ==
    Generated =>
        /\ days_arg >= 1
        /\ \A c \in DOMAIN df_historical : Len(df_historical[c]) = days_arg * 24
        /\ \A i \in 1..(days_arg * 24) :
            /\ 30 <= df_historical.humedad[i] /\ df_historical.humedad[i] <= 100
            /\ 50 <= df_historical.caudal[i] /\ df_historical.caudal[i] <= 2000
            /\ df_historical.viento[i] >= 0
            /\ RLeq[R(0), df_historical.riesgo[i]]
            /\ RLeq[df_historical.riesgo[i], R(100)]
            /\ df_historical.riesgo[i] = row_risk(df_historical, i)

\* C9 witness: a frame of more than one day in which the flow-volume clamp
\* and both humidity clamps acted.
SeriesShape_witness ==
    /\ Generated
    /\ days_arg > 1
    /\ \E i \in 1..(days_arg * 24) : df_historical.caudal[i] = 50
    /\ \E i \in 1..(days_arg * 24) : df_historical.humedad[i] = 30
    /\ \E i \in 1..(days_arg * 24) : df_historical.humedad[i] = 100

\* C10: in every render the effective parameters are the preset's values if
\* a preset button was pressed in that render and the slider values
\* otherwise, and the score, the category, the banner and the metrics shown
\* all come from that one parameter tuple.
RenderFromEffectiveParams ==
    pc = "rendered" =>
        /\ params = (IF button = "critical" THEN CriticalPreset
                     ELSE IF button = "low" THEN LowPreset
                     ELSE sliders)
        /\ flood_risk = calculate_flood_risk(params.pressure, params.humidity,
                            params.precipitation, params.flow_velocity,
                            params.wind_speed, params.temperature,
                            params.sediments, params.flow_volume)
        /\ category = Categorize(flood_risk)
        /\ alert = AlertLevel(flood_risk)
        /\ DOMAIN metrics = DOMAIN params
        /\ \A k \in DOMAIN params : metrics[k].value = params[k]

\* C10 witness: the render after a critical-preset press, no button pressed:
\* the parameters are the sliders' again and the category is no longer
\* CRITICO.
RenderFromEffectiveParams_witness ==
    /\ pc = "rendered"
    /\ prev_button = "critical"
    /\ button = "none"
    /\ params = sliders
    /\ sliders # DefaultSliders
    /\ category # "CRITICO"

====
